---- MODULE Spec2Model ----
(***************************************************************************)
(* Colour quantization engine of the toothpick art planner:                *)
(* quantizeImportantColors (histogram, median-cut box splitter, weighted   *)
(* bin refinement, nearest-palette lookup) and kMeansQuantize (per-pixel   *)
(* k-means with k-means++ seeding); and the application around it: the     *)
(* store, the handlers of App and ControlPanel, and the pattern generator. *)
(*                                                                         *)
(* A pixel is <<r, g, b, a>>, a colour is <<r, g, b>>; sequences are       *)
(* 1-based, so an index of the source is the model's index minus one.      *)
(***************************************************************************)
EXTENDS Integers, Sequences, FiniteSets, TLC

(***************************************************************************)
(* Bounds of the model                                                     *)
(***************************************************************************)
MaxPixels == 5
MaxK == 3
MaxEvents == 3
MaxRows == 32
MaxSliderStep == 1

(***************************************************************************)
(* Inputs                                                                  *)
(***************************************************************************)
\* The pixel values an input buffer is built from: two colours of one
\* bin, colours of neighbouring bins and a transparent pixel.
PixelValues ==
    << <<0, 0, 0, 255>>, <<1, 0, 0, 255>>, <<0, 8, 0, 255>>, <<8, 0, 0, 255>>,
       <<8, 8, 0, 255>>, <<16, 0, 0, 255>>, <<0, 0, 0, 0>> >>

\* the 2x2 image of the documented scenario (saturated red, red, green, blue)
RedRedGreenBlue ==
    << <<255, 0, 0, 255>>, <<255, 0, 0, 255>>, <<0, 255, 0, 255>>, <<0, 0, 255, 255>> >>

\* five greens of five bins, the brightest far from the other four
GreenRamp ==
    << <<0, 0, 0, 255>>, <<0, 8, 0, 255>>, <<0, 16, 0, 255>>, <<0, 24, 0, 255>>,
       <<0, 255, 0, 255>> >>

\* a buffer of 500,001 pixels (2,000,004 bytes, above the sampling threshold):
\* black at the even pixels of the source (odd places here), dark green at
\* the odd ones.  It is examined by the histogram operators alone and is not
\* among the buffers of Init.
LargeImage ==
    [i \in 1..500001 |-> IF i % 2 = 1 THEN <<0, 0, 0, 255>> ELSE <<0, 8, 0, 255>>] \o <<>>

\* smaller buffers for the per-pixel quantizer and for the scenario sizes
MaxExactPixels == MaxPixels - 2
MaxScenarioPixels == MaxPixels - 2
MaxRunPixels == MaxPixels - 3

\* The histogram counts pixels and the remap is pixel by pixel, so a buffer
\* is taken up to the order of its pixels: ranks in PixelValues never fall.
Images ==
    UNION { { [i \in 1..n |-> PixelValues[f[i]]] :
                f \in { h \in [1..n -> 1..Len(PixelValues)] :
                          \A i \in 1..n, j \in 1..n : i < j => h[i] <= h[j] } } :
            n \in 0..MaxPixels }
    \cup {RedRedGreenBlue, GreenRamp}

\* requested palette sizes: 1..MaxK for both quantizers, and the k = 5 and
\* k = 10 of the documented scenarios for the fast one
ScenarioK == {5, 10}
KChoices(o) == IF o = "fast" THEN (1..MaxK) \cup ScenarioK ELSE 1..MaxK

\* iteration caps handed to kMeansQuantize (10 is the default)
MaxIterationsChoices == {0, 1, 10}

(***************************************************************************)
(* Arithmetic helpers                                                      *)
(***************************************************************************)
MinOf(S) == CHOOSE x \in S : \A y \in S : x <= y
MaxOf(S) == CHOOSE x \in S : \A y \in S : x >= y

\* Math.round of the non-negative quotient num / den (halves round up)
Round(num, den) == (2 * num + den) \div (2 * den)

RECURSIVE SumTo(_, _)
\* w[1] + ... + w[i]
SumTo(w, i) == IF i = 0 THEN 0 ELSE SumTo(w, i - 1) + w[i]

SumSeq(w) == SumTo(w, Len(w))

\* squared RGB distance of two colours
D2(a, c) == (a[1] - c[1]) * (a[1] - c[1]) + (a[2] - c[2]) * (a[2] - c[2])
            + (a[3] - c[3]) * (a[3] - c[3])

(***************************************************************************)
(* The random source.  Math.random() * total is kept in half units: the    *)
(* value 0, one value inside every interval of the cumulative weights that *)
(* a positive weight opens, and one value just below total.  These are all *)
(* the outcomes a roulette over integer weights can tell apart.            *)
(***************************************************************************)
RandomTimes(total, w) ==
    { t \in ({0} \cup { 2 * SumTo(w, i) - 1 : i \in { j \in 1..Len(w) : w[j] > 0 } }
                 \cup { 2 * total - 1 }) : t >= 0 }

\* first (1-based) position whose cumulative weight reaches the draw, 0 if none
FirstReach(w, t2) ==
    LET S == { i \in 1..Len(w) : 2 * SumTo(w, i) >= t2 }
    IN  IF S = {} THEN 0 ELSE MinOf(S)

(***************************************************************************)
(* Histogram builder                                                       *)
(***************************************************************************)
reduceBits == 5
shift == 8 - reduceBits
SampleThreshold == 2000000

\* v >> shift
Reduce(v) == v \div (2 ^ shift)
\* (i << shift) + (1 << (shift - 1))
Centre(i) == i * (2 ^ shift) + 2 ^ (shift - 1)

BinIndex(px) == Reduce(px[1]) * 1024 + Reduce(px[2]) * 32 + Reduce(px[3])

\* variant: the scan visits every pixel of every buffer
step_EveryPixel(img) == 4

\* byte step of the histogram scan
step(img) == IF 4 * Len(img) > SampleThreshold THEN 8 ELSE 4

\* the pixels the scan visits
Sampled(img) == { i \in 1..Len(img) : (4 * (i - 1)) % step(img) = 0 }

histogram(img, idx) == Cardinality({ i \in Sampled(img) : BinIndex(img[i]) = idx })

RECURSIVE Ascending(_)
Ascending(S) ==
    IF S = {} THEN <<>>
    ELSE LET m == MinOf(S) IN <<m>> \o Ascending(S \ {m})

\* the non-empty bins in the order of the ri, gi, bi scan (ascending index)
BuildBins(img) ==
    LET populated == Ascending({ BinIndex(img[i]) : i \in Sampled(img) })
    IN  [n \in 1..Len(populated) |->
           LET idx == populated[n]
           IN  [r |-> Centre(idx \div 1024), g |-> Centre((idx \div 32) % 32),
                b |-> Centre(idx % 32), count |-> histogram(img, idx)]]

BinColour(bin) == <<bin.r, bin.g, bin.b>>

\* the bins built for the buffer above the sampling threshold
LargeBins == BuildBins(LargeImage)

(***************************************************************************)
(* Box splitter                                                            *)
(***************************************************************************)
Range(s) == { s[i] : i \in 1..Len(s) }

\* the one element of { e(items) : items \in {its} } is e(its) with its
\* evaluated one time only, as a const of the source is: where the steps of
\* a call are examined for being enabled, a LET is evaluated anew at every use
makeBox(its) ==
    CHOOSE box \in
      { [rMin |-> MinOf({ it.r : it \in Range(items) } \cup {255}),
         rMax |-> MaxOf({ it.r : it \in Range(items) } \cup {0}),
         gMin |-> MinOf({ it.g : it \in Range(items) } \cup {255}),
         gMax |-> MaxOf({ it.g : it \in Range(items) } \cup {0}),
         bMin |-> MinOf({ it.b : it \in Range(items) } \cup {255}),
         bMax |-> MaxOf({ it.b : it \in Range(items) } \cup {0}),
         bins |-> items,
         count |-> SumSeq([i \in 1..Len(items) |-> items[i].count])]
        : items \in {its} } : TRUE

\* the channel splitBox sorts and cuts along
SplitChannel(box) ==
    LET rRange == box.rMax - box.rMin
        gRange == box.gMax - box.gMin
        bRange == box.bMax - box.bMin
    IN  IF gRange >= rRange /\ gRange >= bRange THEN "g"
        ELSE IF bRange >= rRange /\ bRange >= gRange THEN "b"
        ELSE "r"

Chan(bin, channel) == IF channel = "r" THEN bin.r ELSE IF channel = "g" THEN bin.g ELSE bin.b

RECURSIVE SortByChannel(_, _)
\* Array.prototype.sort with the channel comparator: stable, ascending
SortByChannel(s, channel) ==
    IF Len(s) <= 1 THEN s
    ELSE CHOOSE sorted \in
           { LET x == s[Len(s)]
                 keep == Cardinality({ i \in 1..Len(front) : Chan(front[i], channel) <= Chan(x, channel) })
             IN  SubSeq(front, 1, keep) \o <<x>> \o SubSeq(front, keep + 1, Len(front))
               : front \in {SortByChannel(SubSeq(s, 1, Len(s) - 1), channel)} } : TRUE

\* variant: the cut waits until the cumulative count exceeds the half
CutIndex_Strict(sorted, total) ==
    LET counts == [i \in 1..Len(sorted) |-> sorted[i].count]
        S == { i \in 1..Len(sorted) : 2 * SumTo(counts, i) > total }
    IN  IF S = {} THEN 0 ELSE MinOf(S) - 1

\* the 0-based cut index: first i with acc >= total / 2 (0 when none)
CutIndex(sorted, total) ==
    CHOOSE cut \in
      { LET S == { i \in 1..Len(sorted) : 2 * SumTo(counts, i) >= total }
        IN  IF S = {} THEN 0 ELSE MinOf(S) - 1
          : counts \in {[i \in 1..Len(sorted) |-> sorted[i].count]} } : TRUE

\* variant: the right half starts at the cut instead of after it
splitBox_Overlap(box) ==
    LET sorted == SortByChannel(box.bins, SplitChannel(box))
        cut == CutIndex(sorted, box.count)
    IN  IF cut <= 0 \/ cut >= Len(sorted) - 1 THEN <<>>
        ELSE << makeBox(SubSeq(sorted, 1, cut + 1)),
                makeBox(SubSeq(sorted, cut + 1, Len(sorted))) >>

\* variant: a cut at the first bin is accepted
splitBox_LeftOfOne(box) ==
    LET sorted == SortByChannel(box.bins, SplitChannel(box))
        cut == CutIndex(sorted, box.count)
    IN  IF cut < 0 \/ cut >= Len(sorted) - 1 THEN <<>>
        ELSE << makeBox(SubSeq(sorted, 1, cut + 1)),
                makeBox(SubSeq(sorted, cut + 2, Len(sorted))) >>

\* <<left, right>>, or << >> for null
splitBox(box) ==
    CHOOSE sp \in
      { IF cut <= 0 \/ cut >= Len(sorted) - 1 THEN <<>>
        ELSE << makeBox(SubSeq(sorted, 1, cut + 1)),
                makeBox(SubSeq(sorted, cut + 2, Len(sorted))) >>
          : <<sorted, cut>> \in
              { <<srt, CutIndex(srt, box.count)>> :
                  srt \in {SortByChannel(box.bins, SplitChannel(box))} } } : TRUE

\* 100000 * log2(n) for n = 1..12, the populations the bounds allow plus one
Log2Table == <<0, 100000, 158496, 200000, 232193, 258496, 280735, 300000,
               316993, 332193, 345943, 358496>>

\* (rRange + gRange + bRange) * Math.log2(count + 1), in 1/100000
score(bx) ==
    (bx.rMax - bx.rMin + bx.gMax - bx.gMin + bx.bMax - bx.bMin) * Log2Table[bx.count + 1]

RECURSIVE BestFrom(_, _, _, _)
\* the scan for the box to split, from position i on; 0 stands for -1
BestFrom(bxs, i, bestIdx, bestScore) ==
    IF i > Len(bxs) THEN bestIdx
    ELSE IF score(bxs[i]) > bestScore /\ Len(bxs[i].bins) > 1
         THEN BestFrom(bxs, i + 1, i, score(bxs[i]))
         ELSE BestFrom(bxs, i + 1, bestIdx, bestScore)

bestIdxOf(bxs) == BestFrom(bxs, 1, 0, -1)

\* boxes.splice(bestIdx, 1)
Without(bxs, i) == SubSeq(bxs, 1, i - 1) \o SubSeq(bxs, i + 1, Len(bxs))

\* rounded population-weighted mean colour of a sequence of bins
WeightedMean(its) ==
    CHOOSE mean \in
      { LET cSum == SumSeq([i \in 1..Len(items) |-> items[i].count])
            rSum == SumSeq([i \in 1..Len(items) |-> items[i].r * items[i].count])
            gSum == SumSeq([i \in 1..Len(items) |-> items[i].g * items[i].count])
            bSum == SumSeq([i \in 1..Len(items) |-> items[i].b * items[i].count])
        IN  IF cSum = 0 THEN <<0, 0, 0>>
            ELSE <<Round(rSum, cSum), Round(gSum, cSum), Round(bSum, cSum)>>
          : items \in {its} } : TRUE

BoxPalette(bxs) == [i \in 1..Len(bxs) |-> WeightedMean(bxs[i].bins)]

(***************************************************************************)
(* Weighted bin refinement                                                 *)
(***************************************************************************)
\* variant: the refinement target without the cap at k
targetKOf_NoCap(kk, bns) == MaxOf({2, Len(bns)})

targetKOf(kk, bns) == MinOf({kk, MaxOf({2, Len(bns)})})

BinCounts(bns) == [i \in 1..Len(bns) |-> bns[i].count]

\* minD * b.count of every bin against the centroids chosen so far
SeedDists(bns, cs) ==
    [i \in 1..Len(bns) |->
       MinOf({ D2(BinColour(bns[i]), cs[j]) : j \in 1..Len(cs) }) * bns[i].count]

\* dists.reduce(...) || 1
sumDOf(dists) == IF SumSeq(dists) = 0 THEN 1 ELSE SumSeq(dists)

\* the 1-based bin the later seeding roulette picks for the draw t2 (pick = 0 by default)
SeedPick(dists, t2) ==
    LET i == FirstReach(dists, t2) IN IF i = 0 THEN 1 ELSE i

\* index (1-based) of the nearest centroid among the first n, lowest on ties
NearestOf(colour, cs, n) ==
    LET best == MinOf({ D2(colour, cs[i]) : i \in 1..n })
    IN  MinOf({ i \in 1..n : D2(colour, cs[i]) = best })

\* variant: a centroid that receives no weight is reset to black
LloydStep_ResetEmpty(cs, bns, tk) ==
    LET best == [n \in 1..Len(bns) |-> NearestOf(BinColour(bns[n]), cs, tk)]
        members(i) == [n \in 1..Len(bns) |->
                         IF best[n] = i THEN bns[n] ELSE [bns[n] EXCEPT !.count = 0]]
    IN  [i \in 1..Len(cs) |-> WeightedMean(members(i))]

\* one weighted Lloyd iteration over the bins
LloydStep(cs, bns, tk) ==
    CHOOSE next \in
      { LET members(i) == [n \in 1..Len(bns) |->
                             IF best[n] = i THEN bns[n] ELSE [bns[n] EXCEPT !.count = 0]]
        IN  [i \in 1..Len(old) |->
               IF i <= tk /\ (\E n \in 1..Len(bns) : best[n] = i)
               THEN WeightedMean(members(i)) ELSE old[i]]
          : <<old, best>> \in
              { <<c, [n \in 1..Len(bns) |-> NearestOf(BinColour(bns[n]), c, tk)]>> :
                  c \in {cs} } } : TRUE

iters == 3

(***************************************************************************)
(* Nearest-palette mapper                                                  *)
(***************************************************************************)
BinCentre(idx) == <<Centre(idx \div 1024), Centre((idx \div 32) % 32), Centre(idx % 32)>>

\* variant: the scan keeps the last palette entry of the smallest distance
nearest_LastOnTies(pal, idx) ==
    LET best == MinOf({ D2(BinCentre(idx), pal[i]) : i \in 1..Len(pal) })
    IN  MaxOf({ i \in 1..Len(pal) : D2(BinCentre(idx), pal[i]) = best })

\* nearest[idx], as a 1-based palette index (Uint16 storage)
nearest(pal, idx) == ((NearestOf(BinCentre(idx), pal, Len(pal)) - 1) % 65536) + 1

\* variant: the remap leaves the alpha of the input pixel in place
Remap_KeepAlpha(img, pal) ==
    [i \in 1..Len(img) |->
       LET c == pal[nearest(pal, BinIndex(img[i]))] IN <<c[1], c[2], c[3], img[i][4]>>]

\* the remapped buffer
Remap(img, pal) ==
    [i \in 1..Len(img) |->
       LET c == pal[nearest(pal, BinIndex(img[i]))] IN <<c[1], c[2], c[3], 255>>]

\* new ImageData(width, height): transparent black
BlankImage(img) == [i \in 1..Len(img) |-> <<0, 0, 0, 0>>]

\* variant: the degenerate return carries no colour at all
FallbackPalette_Empty == <<>>

\* the palette returned when no bin is populated
FallbackPalette == << <<0, 0, 0>> >>

(***************************************************************************)
(* quantizeImportantColors as a function of the buffer, k and the draws    *)
(***************************************************************************)
\* one pass of the split loop body: the boxes it leaves and whether the loop goes on
SplitIteration(bxs) ==
    LET bestIdx == bestIdxOf(bxs)
    IN  IF bestIdx = 0 THEN [boxes |-> bxs, more |-> FALSE]
        ELSE LET chosen == bxs[bestIdx]
                 rest == Without(bxs, bestIdx)
                 sp == splitBox(chosen)
             IN  IF sp = <<>> THEN [boxes |-> Append(rest, chosen), more |-> FALSE]
                 ELSE [boxes |-> rest \o sp, more |-> TRUE]

RECURSIVE SplitLoop(_, _)
SplitLoop(bxs, kk) ==
    IF Len(bxs) >= kk THEN bxs
    ELSE LET n == SplitIteration(bxs)
         IN  IF n.more THEN SplitLoop(n.boxes, kk) ELSE n.boxes

\* the centroid lists the first roulette can produce
FirstSeeds(bns) ==
    { LET i == FirstReach(BinCounts(bns), t)
      IN  IF i = 0 THEN <<>> ELSE <<BinColour(bns[i])>> :
      t \in RandomTimes(SumSeq(BinCounts(bns)), BinCounts(bns)) }

\* the centroid lists one more pass of the seeding loop can produce
NextSeeds(cs, bns) ==
    LET dists == SeedDists(bns, cs)
    IN  { Append(cs, BinColour(bns[SeedPick(dists, t)])) : t \in RandomTimes(sumDOf(dists), dists) }

RECURSIVE SeedsUpTo(_, _, _, _)
SeedsUpTo(S, bns, tk, n) ==
    IF n >= tk THEN S
    ELSE SeedsUpTo(UNION { NextSeeds(cs, bns) : cs \in S }, bns, tk, n + 1)

Refined(cs, bns, tk) == LloydStep(LloydStep(LloydStep(cs, bns, tk), bns, tk), bns, tk)

\* every palette the call can return for buffer img and size kk
Palettes(img, kk) ==
    LET bns == BuildBins(img)
        boxPalette == BoxPalette(SplitLoop(<<makeBox(bns)>>, kk))
        tk == targetKOf(kk, bns)
    IN  IF bns = <<>> THEN { FallbackPalette }
        ELSE IF Len(boxPalette) < kk
             THEN { Refined(cs, bns, tk) : cs \in SeedsUpTo(FirstSeeds(bns), bns, tk, 1) }
             ELSE { boxPalette }

\* number of distinct colours of a buffer
Distinct(buf) == Cardinality({ <<buf[i][1], buf[i][2], buf[i][3]>> : i \in 1..Len(buf) })

(***************************************************************************)
(* kMeansQuantize helpers                                                  *)
(***************************************************************************)
Pixels(img) == [i \in 1..Len(img) |-> <<img[i][1], img[i][2], img[i][3]>>]

\* minDist * minDist of every pixel against the centroids chosen so far
PixelDists(pixels, cs) ==
    [i \in 1..Len(pixels) |-> MinOf({ D2(pixels[i], cs[j]) : j \in 1..Len(cs) })]

findClosestCentroid(pixel, cs) == NearestOf(pixel, cs, Len(cs))

Cluster(asg, i) == { n \in 1..Len(asg) : asg[n] = i }

\* mean of a non-empty cluster, rounded per channel
ClusterMean(pixels, members) ==
    LET sel(c) == SumSeq([n \in 1..Len(pixels) |-> IF n \in members THEN pixels[n][c] ELSE 0])
        cnt == Cardinality(members)
    IN  <<Round(sel(1), cnt), Round(sel(2), cnt), Round(sel(3), cnt)>>

\* updateCentroids, with reseed[i] the pixel drawn for the empty cluster i
updateCentroids(pixels, asg, kk, reseed) ==
    [i \in 1..kk |->
       IF Cluster(asg, i) = {} THEN pixels[reseed[i]]
       ELSE ClusterMean(pixels, Cluster(asg, i))]

(***************************************************************************)
(* Pattern dimensions (patternGenerator).  The aspect ratio is kept as the *)
(* two integers imageWidth and imageHeight it is the quotient of, and the  *)
(* arithmetic is exact.                                                    *)
(***************************************************************************)
\* the IEEE value Infinity: above every finite number of the model
Infinity == 1000000

\* Math.PI as a fraction
PiNum == 355
PiDen == 113

RECURSIVE FloorSqrtFrom(_, _, _)
FloorSqrtFrom(c, num, den) ==
    IF (c + 1) * (c + 1) * den > num THEN c ELSE FloorSqrtFrom(c + 1, num, den)

\* Math.floor(Math.sqrt(num / den)) for num >= 0, den > 0
FloorSqrt(num, den) == FloorSqrtFrom(0, num, den)

\* calculatePatternDimensions(totalCount, width / height, type).  With cols = 0
\* the quotient totalCount / cols is Infinity, rows * cols is NaN and the
\* comparison NaN < totalCount is false.
calculatePatternDimensions(totalCount, width, height, type) ==
    IF type = "circular"
    THEN LET rings == FloorSqrt(totalCount * PiDen, PiNum)
         IN  [rows |-> rings, cols |-> rings]
    ELSE LET cols == FloorSqrt(totalCount * width, height)
             rows == IF cols = 0 THEN Infinity ELSE totalCount \div cols
         IN  [rows |-> IF cols # 0 /\ rows * cols < totalCount THEN rows + 1 ELSE rows,
              cols |-> cols]

(***************************************************************************)
(* Inputs of the application                                               *)
(***************************************************************************)
PatternTypes == {"grid", "offset-grid", "hexagonal", "circular"}

\* values of the Total Toothpicks slider (min 1, step 10)
SliderValues == { 1 + 10 * n : n \in 0..MaxSliderStep }

\* width and height of dropped images: a portrait and a landscape one
DroppedSizes == { <<1, 2>>, <<2, 1>> }

\* width and height of the demo image
DemoSize == <<100, 100>>

\* keys pressed
Keys == {"c", "C", "x"}

\* values at which the Number of Colors slider is released (2 to 500)
KSliderValues == {2, 16}

\* what a render of ControlPanel hands to updateToothpicks
Closure(data, type, count, width, height) ==
    [imageData |-> data, patternType |-> type, toothpickCount |-> count,
     imageWidth |-> width, imageHeight |-> height]

\* the calls of updateToothpicks made by the two effects after a render in
\* which updateToothpicks has changed
Effects(c) == IF c.imageData # 0 THEN <<c, c>> ELSE <<c>>

(***************************************************************************)
(* State                                                                   *)
(***************************************************************************)
VARIABLES
    op,             \* "fast": quantizeImportantColors, "exact": kMeansQuantize
    image,          \* imageData.data, one entry per pixel
    k,              \* requested palette size
    maxIterations,  \* iteration cap of kMeansQuantize
    pc,             \* position in the call
    bins,           \* populated histogram bins
    boxes,          \* box list of the splitter
    cents,          \* centroids of the weighted refinement
    it,             \* weighted Lloyd iterations done
    centroids,      \* centroids of kMeansQuantize
    assignments,    \* cluster (1-based) of every pixel
    changed,        \* loop flag of kMeansQuantize
    iteration,      \* loop counter of kMeansQuantize
    palette,        \* palette being built / returned
    out,            \* returned buffer
    nRandom         \* calls of Math.random() so far

\* the store, ControlPanel and App
VARIABLES
    imageData,      \* 0 for null, else the number of the ImageData object the store holds
    imageWidth,
    imageHeight,
    patternType,
    toothpickCount,
    toothpicks,     \* <<>> or <<c>>: the list generated by the call with closure c
    colorPickerMode,
    is2DMode,
    updateTimer,    \* <<>> or <<c>>: the pending debounce timer and its closure
    calls,          \* calls of updateToothpicks that are due, with their closures
    gpc,            \* "idle", or "generate" inside a pattern generator
    cur,            \* closure of the running call of updateToothpicks
    rows,
    cols,
    row,            \* loop variable of the generator
    demoPending,    \* the timer of App that loads the demo image is pending
    nEvents,        \* user events so far
    nToggles        \* colour-picker toggles so far

\* the colour reduction of ControlPanel and of the store
VARIABLES
    clusterEnabled,
    kValue,
    colorPalette,   \* <<>> for [], or <<n>>: the palette set by call n of updateToothpicks
    reqIdRef,       \* reqIdRef.current
    quantCache,     \* <<>> for null, or <<[imageData, k]>>: what the cached quantization is of
    suspended,      \* the calls of updateToothpicks waiting at the await, oldest first
    nStarted,       \* calls of updateToothpicks that got past the test of imageData
    curId,          \* number of the call cur belongs to
    toothpicksBy    \* number of the call that stored toothpicks, 0 at first

fastVars == <<bins, boxes, cents, it>>
exactVars == <<centroids, assignments, changed, iteration>>
inputVars == <<op, image, k, maxIterations>>
quantVars == <<inputVars, fastVars, exactVars, pc, palette, out, nRandom>>

imageVars == <<imageData, imageWidth, imageHeight>>
modeVars == <<colorPickerMode, is2DMode, nToggles>>
storeVars == <<imageVars, patternType, toothpickCount, toothpicks, modeVars>>
generatorVars == <<gpc, cur, rows, cols, row>>
clusterVars == <<clusterEnabled, kValue, colorPalette, reqIdRef, quantCache, suspended,
                 nStarted, curId, toothpicksBy>>
appVars == <<storeVars, clusterVars, updateTimer, calls, generatorVars, demoPending, nEvents>>

vars == <<quantVars, appVars>>

\* no call of a quantizer is in progress
QuantIdle ==
    /\ op = "none"
    /\ image = <<>>
    /\ k = 1
    /\ maxIterations = 10
    /\ pc = "start"
    /\ bins = <<>>
    /\ boxes = <<>>
    /\ cents = <<>>
    /\ it = 0
    /\ centroids = <<>>
    /\ assignments = <<>>
    /\ changed = TRUE
    /\ iteration = 0
    /\ palette = <<>>
    /\ out = <<>>
    /\ nRandom = 0

\* the initial state of the store, with ControlPanel and App mounted: the
\* first effect of ControlPanel has its call of updateToothpicks due
AppStart ==
    /\ imageData = 0
    /\ imageWidth = 100
    /\ imageHeight = 100
    /\ patternType = "grid"
    /\ toothpickCount = 400
    /\ toothpicks = <<>>
    /\ colorPickerMode = FALSE
    /\ is2DMode = FALSE
    /\ updateTimer = <<>>
    /\ calls = <<Closure(0, "grid", 400, 100, 100)>>
    /\ gpc = "idle"
    /\ cur = Closure(0, "grid", 400, 100, 100)
    /\ rows = 0
    /\ cols = 0
    /\ row = 0
    /\ demoPending = TRUE
    /\ nEvents = 0
    /\ nToggles = 0
    /\ clusterEnabled = FALSE
    /\ kValue = 16
    /\ colorPalette = <<>>
    /\ reqIdRef = 0
    /\ quantCache = <<>>
    /\ suspended = <<>>
    /\ nStarted = 0
    /\ curId = 0
    /\ toothpicksBy = 0

\* the state at the entry of a call of quantizer o
InitOf(o) ==
    /\ op = o
    /\ image \in Images
    /\ op = "exact" => Len(image) <= MaxExactPixels
    /\ k \in KChoices(op)
    /\ k \in ScenarioK => Len(image) <= MaxScenarioPixels
    /\ maxIterations \in (IF op = "exact" THEN MaxIterationsChoices ELSE {10})
    /\ pc = "start"
    /\ bins = <<>>
    /\ boxes = <<>>
    /\ cents = <<>>
    /\ it = 0
    /\ centroids = <<>>
    /\ assignments = <<>>
    /\ changed = TRUE
    /\ iteration = 0
    /\ palette = <<>>
    /\ out = <<>>
    /\ nRandom = 0
    /\ AppStart

Init == InitOf("fast")

InitExact == InitOf("exact")

(***************************************************************************)
(* quantizeImportantColors                                                 *)
(***************************************************************************)
\* histogram scan and bin list; the degenerate return when no bin is populated
Histogram ==
    /\ pc = "start" /\ op = "fast"
    /\ bins' = BuildBins(image)
    /\ IF bins' = <<>>
       THEN /\ palette' = FallbackPalette
            /\ out' = BlankImage(image)
            /\ boxes' = boxes
            /\ pc' = "done"
       ELSE /\ boxes' = <<makeBox(bins')>>
            /\ pc' = "split"
            /\ UNCHANGED <<palette, out>>
    /\ UNCHANGED <<inputVars, appVars, cents, it, exactVars, nRandom>>

\* while (boxes.length < k) fails
SplitLoopExit ==
    /\ pc = "split" /\ Len(boxes) >= k
    /\ pc' = "palette"
    /\ UNCHANGED <<inputVars, appVars, fastVars, exactVars, palette, out, nRandom>>

\* no box has more than one bin: break
SplitNoCandidate ==
    /\ pc = "split" /\ Len(boxes) < k
    /\ bestIdxOf(boxes) = 0
    /\ pc' = "palette"
    /\ UNCHANGED <<inputVars, appVars, fastVars, exactVars, palette, out, nRandom>>

\* variant: after a rejected split the loop goes on instead of breaking
SplitRejected_NoBreak ==
    /\ pc = "split" /\ Len(boxes) < k
    /\ bestIdxOf(boxes) # 0
    /\ splitBox(boxes[bestIdxOf(boxes)]) = <<>>
    /\ boxes' = SplitIteration(boxes).boxes
    /\ UNCHANGED <<inputVars, appVars, pc, bins, cents, it, exactVars, palette, out, nRandom>>

\* splitBox returned null: the chosen box goes back to the end of the list, break
SplitRejected ==
    /\ pc = "split" /\ Len(boxes) < k
    /\ bestIdxOf(boxes) # 0
    /\ splitBox(boxes[bestIdxOf(boxes)]) = <<>>
    /\ boxes' = SplitIteration(boxes).boxes
    /\ pc' = "palette"
    /\ UNCHANGED <<inputVars, appVars, bins, cents, it, exactVars, palette, out, nRandom>>

\* the chosen box is replaced by its two halves
SplitSucceeded ==
    /\ pc = "split" /\ Len(boxes) < k
    /\ bestIdxOf(boxes) # 0
    /\ splitBox(boxes[bestIdxOf(boxes)]) # <<>>
    /\ boxes' = SplitIteration(boxes).boxes
    /\ UNCHANGED <<inputVars, appVars, pc, bins, cents, it, exactVars, palette, out, nRandom>>

\* variant: the refinement is entered also with exactly k box representatives
ComputePalette_AtMost ==
    /\ pc = "palette"
    /\ palette' = BoxPalette(boxes)
    /\ pc' = IF Len(palette') <= k THEN "seed" ELSE "lut"
    /\ UNCHANGED <<inputVars, appVars, fastVars, exactVars, out, nRandom>>

\* box representatives; the refinement is entered when they are fewer than k
ComputePalette ==
    /\ pc = "palette"
    /\ palette' = BoxPalette(boxes)
    /\ pc' = IF Len(palette') < k THEN "seed" ELSE "lut"
    /\ UNCHANGED <<inputVars, appVars, fastVars, exactVars, out, nRandom>>

\* first centroid, by bin weight
SeedFirst ==
    /\ pc = "seed" /\ cents = <<>>
    /\ \E t \in RandomTimes(SumSeq(BinCounts(bins)), BinCounts(bins)) :
         LET i == FirstReach(BinCounts(bins), t)
         IN  cents' = IF i = 0 THEN <<>> ELSE <<BinColour(bins[i])>>
    /\ nRandom' = nRandom + 1
    /\ UNCHANGED <<inputVars, appVars, pc, bins, boxes, it, exactVars, palette, out>>

\* while (cents.length < targetK): one more centroid
SeedNext ==
    /\ pc = "seed" /\ cents # <<>>
    /\ Len(cents) < targetKOf(k, bins)
    /\ cents' \in NextSeeds(cents, bins)
    /\ nRandom' = nRandom + 1
    /\ UNCHANGED <<inputVars, appVars, pc, bins, boxes, it, exactVars, palette, out>>

\* seeding loop exit
SeedDone ==
    /\ pc = "seed" /\ cents # <<>>
    /\ Len(cents) >= targetKOf(k, bins)
    /\ pc' = "lloyd"
    /\ UNCHANGED <<inputVars, appVars, fastVars, exactVars, palette, out, nRandom>>

\* one of the iters weighted Lloyd iterations; the last one installs the palette
LloydIteration ==
    /\ pc = "lloyd" /\ it < iters
    /\ cents' = LloydStep(cents, bins, targetKOf(k, bins))
    /\ it' = it + 1
    /\ IF it' = iters
       THEN palette' = cents' /\ pc' = "lut"
       ELSE UNCHANGED <<palette, pc>>
    /\ UNCHANGED <<inputVars, appVars, bins, boxes, exactVars, out, nRandom>>

\* variant: the remap is written over the input buffer, which is returned
BuildOutput_InPlace ==
    /\ pc = "lut"
    /\ image' = Remap(image, palette)
    /\ out' = image'
    /\ pc' = "done"
    /\ UNCHANGED <<op, k, maxIterations, appVars, fastVars, exactVars, palette, nRandom>>

\* nearest map and remap of every pixel; return
BuildOutput ==
    /\ pc = "lut"
    /\ out' = Remap(image, palette)
    /\ pc' = "done"
    /\ UNCHANGED <<inputVars, appVars, fastVars, exactVars, palette, nRandom>>

(***************************************************************************)
(* kMeansQuantize                                                          *)
(***************************************************************************)
\* first centroid: a uniformly drawn pixel; spreading pixels[0] of an empty
\* buffer raises a TypeError
KMSeedFirst ==
    /\ pc = "start" /\ op = "exact"
    /\ nRandom' = nRandom + 1
    /\ IF Len(image) = 0
       THEN pc' = "threw" /\ UNCHANGED centroids
       ELSE /\ \E firstIndex \in 1..Len(image) : centroids' = <<Pixels(image)[firstIndex]>>
            /\ pc' = IF 1 < k THEN "kmseed" ELSE "loop"
    /\ UNCHANGED <<inputVars, appVars, fastVars, assignments, changed, iteration, palette, out>>

\* one of the remaining k - 1 centroids, by squared distance
KMSeedNext ==
    /\ pc = "kmseed"
    /\ LET distances == PixelDists(Pixels(image), centroids)
       IN  \E t \in RandomTimes(SumSeq(distances), distances) :
             LET j == FirstReach(distances, t)
             IN  centroids' = IF j = 0 THEN centroids ELSE Append(centroids, Pixels(image)[j])
    /\ nRandom' = nRandom + 1
    /\ pc' = IF Len(centroids') < k THEN "kmseed" ELSE "loop"
    /\ UNCHANGED <<inputVars, appVars, fastVars, assignments, changed, iteration, palette, out>>

\* variant: the loop goes on for as long as an assignment changed
KMAssign_NoCap ==
    /\ pc = "loop" /\ changed
    /\ LET old == IF assignments = <<>> THEN [i \in 1..Len(image) |-> 1] ELSE assignments
       IN  /\ assignments' = [i \in 1..Len(image) |-> findClosestCentroid(Pixels(image)[i], centroids)]
           /\ changed' = (assignments' # old)
    /\ pc' = "update"
    /\ UNCHANGED <<inputVars, appVars, fastVars, centroids, iteration, palette, out, nRandom>>

\* assignment step of one loop iteration (assignments start filled with cluster 0)
KMAssign ==
    /\ pc = "loop" /\ changed /\ iteration < maxIterations
    /\ LET old == IF assignments = <<>> THEN [i \in 1..Len(image) |-> 1] ELSE assignments
       IN  /\ assignments' = [i \in 1..Len(image) |-> findClosestCentroid(Pixels(image)[i], centroids)]
           /\ changed' = (assignments' # old)
    /\ pc' = "update"
    /\ UNCHANGED <<inputVars, appVars, fastVars, centroids, iteration, palette, out, nRandom>>

\* update step: every empty cluster is reseeded with a drawn pixel
KMUpdate ==
    /\ pc = "update"
    /\ LET empty == { i \in 1..k : Cluster(assignments, i) = {} }
       IN  /\ \E reseed \in [empty -> 1..Len(image)] :
                centroids' = updateCentroids(Pixels(image), assignments, k, reseed)
           /\ nRandom' = nRandom + Cardinality(empty)
    /\ iteration' = iteration + 1
    /\ pc' = "loop"
    /\ UNCHANGED <<inputVars, appVars, fastVars, assignments, changed, palette, out>>

\* loop exit: build the quantized buffer and return the centroids as palette
KMFinish ==
    /\ pc = "loop" /\ ~(changed /\ iteration < maxIterations)
    /\ LET asg == IF assignments = <<>> THEN [i \in 1..Len(image) |-> 1] ELSE assignments
       IN  out' = [i \in 1..Len(image) |->
                     LET c == centroids[asg[i]] IN <<c[1], c[2], c[3], 255>>]
    /\ palette' = centroids
    /\ pc' = "done"
    /\ UNCHANGED <<inputVars, appVars, fastVars, exactVars, nRandom>>

(***************************************************************************)
(* Store, App and ControlPanel.  A handler runs to its end before the next *)
(* event is taken: the render that follows a change of the store and the   *)
(* calls of updateToothpicks made by its effects come before any other     *)
(* event.  A call of updateToothpicks that has to quantize gives way at    *)
(* its await: events and other calls may come before it resumes.           *)
(***************************************************************************)
\* nothing is running and no call is due
Idle == calls = <<>> /\ gpc = "idle"

\* the closure of the current render
Rendered == Closure(imageData, patternType, toothpickCount, imageWidth, imageHeight)

\* the timer of App fires: setImage('demo', 100, 100, demoImageData)
DemoImageLoaded ==
    /\ demoPending /\ Idle
    /\ demoPending' = FALSE
    /\ imageData' = imageData + 1
    /\ imageWidth' = DemoSize[1]
    /\ imageHeight' = DemoSize[2]
    /\ calls' = Effects(Closure(imageData + 1, patternType, toothpickCount, DemoSize[1], DemoSize[2]))
    /\ UNCHANGED <<quantVars, clusterVars, patternType, toothpickCount, toothpicks, modeVars,
                   updateTimer, generatorVars, nEvents>>

\* ImageUploader.onDrop: setImage(url, width, height, data)
DropImage ==
    /\ Idle /\ nEvents < MaxEvents
    /\ \E size \in DroppedSizes :
         /\ imageData' = imageData + 1
         /\ imageWidth' = size[1]
         /\ imageHeight' = size[2]
         /\ calls' = Effects(Closure(imageData + 1, patternType, toothpickCount, size[1], size[2]))
    /\ nEvents' = nEvents + 1
    /\ UNCHANGED <<quantVars, clusterVars, patternType, toothpickCount, toothpicks, modeVars,
                   updateTimer, generatorVars, demoPending>>

\* the Pattern Type select: setPatternType
SetPatternType ==
    /\ Idle /\ nEvents < MaxEvents
    /\ \E type \in PatternTypes \ {patternType} :
         /\ patternType' = type
         /\ calls' = Effects(Closure(imageData, type, toothpickCount, imageWidth, imageHeight))
    /\ nEvents' = nEvents + 1
    /\ UNCHANGED <<quantVars, clusterVars, imageVars, toothpickCount, toothpicks, modeVars,
                   updateTimer, generatorVars, demoPending>>

\* the Total Toothpicks slider: the count goes to the store, the pending
\* timer is cleared and a new one is set with the updateToothpicks of the
\* render the handler belongs to
handleToothpickCountChange ==
    /\ Idle /\ nEvents < MaxEvents
    /\ \E count \in SliderValues \ {toothpickCount} :
         /\ toothpickCount' = count
         /\ calls' = Effects(Closure(imageData, patternType, count, imageWidth, imageHeight))
    /\ updateTimer' = <<Rendered>>
    /\ nEvents' = nEvents + 1
    /\ UNCHANGED <<quantVars, clusterVars, imageVars, patternType, toothpicks, modeVars,
                   generatorVars, demoPending>>

\* the debounce timer fires after 150 ms: updateToothpicks()
TimerFires ==
    /\ Idle /\ updateTimer # <<>>
    /\ calls' = updateTimer
    /\ updateTimer' = <<>>
    /\ UNCHANGED <<quantVars, clusterVars, storeVars, generatorVars, demoPending, nEvents>>

\* variant: the button switches the colour picker and leaves the camera alone
toggleColorPicker_PickerOnly ==
    /\ Idle /\ nEvents < MaxEvents
    /\ colorPickerMode' = ~colorPickerMode
    /\ nToggles' = nToggles + 1
    /\ nEvents' = nEvents + 1
    /\ UNCHANGED <<quantVars, clusterVars, imageVars, patternType, toothpickCount, toothpicks, is2DMode,
                   updateTimer, calls, generatorVars, demoPending>>

\* the Color Picker Mode button; setToothpicks([...toothpicks]) stores a copy
\* of the list it already holds
toggleColorPicker ==
    /\ Idle /\ nEvents < MaxEvents
    /\ colorPickerMode' = ~colorPickerMode
    /\ is2DMode' = ~colorPickerMode
    /\ toothpicks' = toothpicks
    /\ nToggles' = nToggles + 1
    /\ nEvents' = nEvents + 1
    /\ UNCHANGED <<quantVars, clusterVars, imageVars, patternType, toothpickCount,
                   updateTimer, calls, generatorVars, demoPending>>

\* a key press: 'c' and 'C' switch the colour picker and the camera
handleKeyPress ==
    /\ Idle /\ nEvents < MaxEvents
    /\ \E key \in Keys :
         IF key = "c" \/ key = "C"
         THEN /\ colorPickerMode' = ~colorPickerMode
              /\ is2DMode' = ~colorPickerMode
              /\ nToggles' = nToggles + 1
         ELSE UNCHANGED modeVars
    /\ nEvents' = nEvents + 1
    /\ UNCHANGED <<quantVars, clusterVars, imageVars, patternType, toothpickCount, toothpicks,
                   updateTimer, calls, generatorVars, demoPending>>

\* updateToothpicks without an image: if (!imageData) return
UpdateWithoutImage ==
    /\ gpc = "idle" /\ calls # <<>>
    /\ Head(calls).imageData = 0
    /\ calls' = Tail(calls)
    /\ UNCHANGED <<quantVars, clusterVars, storeVars, updateTimer, generatorVars, demoPending, nEvents>>

\* the Color Reduction checkbox (shown with the palette): setClusterEnabled
SetClusterEnabled ==
    /\ Idle /\ nEvents < MaxEvents
    /\ colorPalette # <<>>
    /\ clusterEnabled' = ~clusterEnabled
    /\ calls' = Effects(Rendered)
    /\ nEvents' = nEvents + 1
    /\ UNCHANGED <<quantVars, storeVars, kValue, colorPalette, reqIdRef, quantCache, suspended,
                   nStarted, curId, toothpicksBy, updateTimer, generatorVars, demoPending>>

\* the Number of Colors slider is released at pendingK: setKValue(pendingK),
\* updateToothpicks(pendingK), and the effects of the render that follows when
\* the value is a new one
KSliderReleased ==
    /\ Idle /\ nEvents < MaxEvents
    /\ colorPalette # <<>> /\ clusterEnabled
    /\ \E pendingK \in KSliderValues :
         /\ kValue' = pendingK
         /\ calls' = IF pendingK = kValue THEN <<Rendered>> ELSE <<Rendered>> \o Effects(Rendered)
    /\ nEvents' = nEvents + 1
    /\ UNCHANGED <<quantVars, storeVars, clusterEnabled, colorPalette, reqIdRef, quantCache,
                   suspended, nStarted, curId, toothpicksBy, updateTimer, generatorVars,
                   demoPending>>

\* call n with closure c goes on from the pattern dimensions to the entry of
\* the generator
EnterGenerator(c, n) ==
    /\ cur' = c
    /\ curId' = n
    /\ LET dims == calculatePatternDimensions(c.toothpickCount, c.imageWidth,
                                              c.imageHeight, c.patternType)
       IN  rows' = dims.rows /\ cols' = dims.cols
    /\ row' = 0
    /\ gpc' = "generate"

\* cached && cached.imageData === imageData && cached.k === kNow
CacheHit(c, kNow) ==
    quantCache # <<>> /\ quantCache[1].imageData = c.imageData /\ quantCache[1].k = kNow

\* updateToothpicks up to the entry of the generator, or up to the await when
\* the image has to be quantized; kNow is the kValue of the store at the call,
\* which is also the overrideK of the call made by the slider
updateToothpicks ==
    /\ gpc = "idle" /\ calls # <<>>
    /\ Head(calls).imageData # 0
    /\ calls' = Tail(calls)
    /\ nStarted' = nStarted + 1
    /\ IF clusterEnabled /\ kValue > 1 /\ ~CacheHit(Head(calls), kValue)
       THEN /\ reqIdRef' = reqIdRef + 1
            /\ suspended' = Append(suspended, [closure |-> Head(calls), k |-> kValue,
                                                myReq |-> reqIdRef', id |-> nStarted'])
            /\ UNCHANGED <<colorPalette, curId, generatorVars>>
       ELSE /\ colorPalette' = <<nStarted'>>
            /\ EnterGenerator(Head(calls), nStarted')
            /\ UNCHANGED <<reqIdRef, suspended>>
    /\ UNCHANGED <<quantVars, storeVars, clusterEnabled, kValue, quantCache, toothpicksBy,
                   updateTimer, demoPending, nEvents>>

\* the oldest waiting call resumes after the import: it quantizes, returns if
\* its request number is no longer the current one, and otherwise fills the
\* cache, sets the palette and goes on to the generator
ResumeQuantized ==
    /\ Idle /\ suspended # <<>>
    /\ suspended' = Tail(suspended)
    /\ IF Head(suspended).myReq # reqIdRef
       THEN UNCHANGED <<quantCache, colorPalette, curId, generatorVars>>
       ELSE /\ quantCache' = <<[imageData |-> Head(suspended).closure.imageData,
                                k |-> Head(suspended).k]>>
            /\ colorPalette' = <<Head(suspended).id>>
            /\ EnterGenerator(Head(suspended).closure, Head(suspended).id)
    /\ UNCHANGED <<quantVars, storeVars, clusterEnabled, kValue, reqIdRef, nStarted,
                   toothpicksBy, updateTimer, calls, demoPending, nEvents>>

\* one pass of the outer loop of the generator (a row, or a ring)
GenerateRow ==
    /\ gpc = "generate"
    /\ row < rows /\ row < MaxRows
    /\ row' = row + 1
    /\ UNCHANGED <<quantVars, clusterVars, storeVars, updateTimer, calls, gpc, cur, rows, cols,
                   demoPending, nEvents>>

\* the generator returns; the list is trimmed and stored: setToothpicks
SetToothpicks ==
    /\ gpc = "generate"
    /\ row >= rows
    /\ toothpicks' = <<cur>>
    /\ toothpicksBy' = curId
    /\ gpc' = "idle"
    /\ UNCHANGED <<quantVars, clusterEnabled, kValue, colorPalette, reqIdRef, quantCache,
                   suspended, nStarted, curId, imageVars, patternType, toothpickCount, modeVars,
                   updateTimer, calls, cur, rows, cols, row, demoPending, nEvents>>

Next ==
    \/ Histogram
    \/ SplitLoopExit
    \/ SplitNoCandidate
    \/ SplitRejected
    \/ SplitSucceeded
    \/ ComputePalette
    \/ SeedFirst
    \/ SeedNext
    \/ SeedDone
    \/ LloydIteration
    \/ BuildOutput

NextExact ==
    \/ KMSeedFirst
    \/ KMSeedNext
    \/ KMAssign
    \/ KMUpdate
    \/ KMFinish

\* calls of quantizeImportantColors
Spec == Init /\ [][Next]_vars

\* the calls followed to their end: short buffers and the two scenario images
InitRun == Init /\ (Len(image) <= MaxRunPixels \/ image \in {RedRedGreenBlue, GreenRamp})

\* calls of quantizeImportantColors that are run to their end: the function
\* is synchronous, so a call that has a next step takes it
SpecRun == InitRun /\ [][Next]_vars /\ WF_vars(Next)

\* calls of kMeansQuantize
SpecExact == InitExact /\ [][NextExact]_vars

InitApp == QuantIdle /\ AppStart

NextApp ==
    \/ DemoImageLoaded
    \/ DropImage
    \/ SetPatternType
    \/ handleToothpickCountChange
    \/ TimerFires
    \/ toggleColorPicker
    \/ handleKeyPress
    \/ SetClusterEnabled
    \/ KSliderReleased
    \/ UpdateWithoutImage
    \/ updateToothpicks
    \/ ResumeQuantized
    \/ GenerateRow
    \/ SetToothpicks

\* the application: events of the user, timers and calls of updateToothpicks
SpecApp == InitApp /\ [][NextApp]_vars

InitQuant == Init \/ InitExact

NextQuant == Next \/ NextExact

\* calls of either quantizer
SpecQuant == InitQuant /\ [][NextQuant]_vars

(***************************************************************************)
(* Properties                                                              *)
(***************************************************************************)
RGB(px) == <<px[1], px[2], px[3]>>

FastDone == op = "fast" /\ pc = "done"

Opaque(img) == \A i \in 1..Len(img) : img[i][4] = 255

\* C1: for a non-empty buffer and k >= 1 the palette quantizeImportantColors
\* returns has at least 1 and at most k entries, from the box splitter and
\* from the weighted refinement alike.
C1_PaletteLength ==
    (FastDone /\ Len(image) > 0) => (1 <= Len(palette) /\ Len(palette) <= k)

\* the refinement returned a palette of exactly k entries, with fewer boxes than k
C1_Witness ==
    FastDone /\ it = iters /\ Len(boxes) < k /\ Len(palette) = k /\ Len(bins) > k

\* bins at which the nearest map is probed, populated by an input or by none
ProbeBins == {0, 1, 32, 33, 1024, 1057, 16912, 31744, 32767}

\* C2: every pixel of the buffer quantizeImportantColors returns for a
\* non-empty image carries the colour of some palette entry and alpha 255;
\* the nearest map holds a palette index for populated and empty bins alike.
C2_OutputInPalette ==
    (FastDone /\ Len(image) > 0) =>
        /\ Len(out) = Len(image)
        /\ \A i \in 1..Len(out) :
             /\ out[i][4] = 255
             /\ \E p \in 1..Len(palette) : palette[p] = RGB(out[i])
        /\ \A idx \in ProbeBins : nearest(palette, idx) \in 1..Len(palette)

\* a returned buffer with two colours, one of them written over a transparent pixel
C2_Witness ==
    /\ FastDone /\ Distinct(out) >= 2
    /\ \E i \in 1..Len(image) : image[i][4] = 0 /\ out[i][4] = 255

\* number of places a bin takes in the boxes of the list
Places(bin) ==
    Cardinality({ <<i, j>> \in (1..Len(boxes)) \X (1..MaxPixels + 1) :
                    j <= Len(boxes[i].bins) /\ boxes[i].bins[j] = bin })

\* C3: after every iteration of the split loop the boxes partition the bins:
\* every populated bin is in exactly one box, no box holds anything else, and
\* the box populations add up to the population of all bins.
C3_BoxesPartitionBins ==
    (op = "fast" /\ pc \in {"split", "palette"}) =>
        /\ \A n \in 1..Len(bins) : Places(bins[n]) = 1
        /\ \A i \in 1..Len(boxes) : Range(boxes[i].bins) \subseteq Range(bins)
        /\ SumSeq([i \in 1..Len(boxes) |-> boxes[i].count]) = SumSeq(BinCounts(bins))

\* the loop has ended after two successful splits of a five-bin image
C3_Witness ==
    /\ op = "fast" /\ pc = "palette" /\ Len(boxes) = 3 /\ Len(bins) = 5

\* C4: remapping the returned buffer through the nearest map of the returned
\* palette gives the same buffer again.
C4_RemapIdempotent ==
    (FastDone /\ Len(image) > 0) => Remap(out, palette) = out

\* C5: for a 1x1 image and k = 5 the palette is the single colour of the pixel
\* and the returned buffer is that pixel with alpha 255.
C5_SinglePixel ==
    (FastDone /\ Len(image) = 1 /\ k = 5 /\ Opaque(image)) =>
        /\ palette = <<RGB(image[1])>>
        /\ out = << <<image[1][1], image[1][2], image[1][3], 255>> >>

\* C6: for an image of exactly 3 distinct colours and k = 10 the palette has
\* exactly 3 entries, pairwise distinct, whatever the random draws.
C6_ThreeColours ==
    (FastDone /\ k = 10 /\ Opaque(image) /\ Distinct(image) = 3) =>
        /\ Len(palette) = 3
        /\ \A p \in 1..Len(palette), q \in 1..Len(palette) : p # q => palette[p] # palette[q]

\* C7: when the image has fewer distinct colours than k, the palette
\* kMeansQuantize returns is no longer than the number of distinct colours.
C7_ShortPalette ==
    (op = "exact" /\ pc = "done" /\ Len(image) > 0 /\ Opaque(image) /\ Distinct(image) < k) =>
        Len(palette) <= Distinct(image)

\* C8: for the 2x2 image red, red, green, blue and k = 2 the palette has 2
\* entries, one of them the colour of the red bin alone, and every returned
\* pixel is one of the two entries.
C8_RedKeptApart ==
    (FastDone /\ k = 2 /\ image = RedRedGreenBlue) =>
        /\ Len(palette) = 2
        /\ \E p \in 1..Len(palette) : palette[p] = BinCentre(BinIndex(<<255, 0, 0, 255>>))
        /\ \A i \in 1..Len(out) : \E p \in 1..Len(palette) : palette[p] = RGB(out[i])

\* C9: a larger k never gives fewer distinct colours in the returned buffer:
\* whatever a call with a smaller k can return has at most as many.
C9_MoreColoursWithLargerK ==
    (FastDone /\ Len(image) > 0) =>
        \A k1 \in 1..(k - 1) : \A pal \in Palettes(image, k1) :
            Distinct(Remap(image, pal)) <= Distinct(out)

\* C11: given a zero-length pixel buffer, kMeansQuantize does not raise: for
\* every k >= 1 it returns normally, with a palette of at least one entry.
C11_EmptyBufferReturns ==
    (op = "exact" /\ Len(image) = 0) =>
        /\ pc # "threw"
        /\ pc = "done" => Len(palette) >= 1

C13_TransparentImageFallback ==
    (FastDone /\ \A i \in 1..Len(image) : image[i][4] = 0) =>
        /\ bins = <<>>
        /\ palette = << <<0, 0, 0>> >>

\* C14: neither quantizer writes to the input buffer: no step of a call changes
\* a byte of imageData.data, and the buffer a call returns is another buffer
\* with the dimensions of the input.
C14_InputUntouched ==
    [][image' = image /\ (pc' = "done" => Len(out') = Len(image))]_vars

\* a call has returned a buffer that differs from its input
C14_Witness ==
    pc = "done" /\ Len(image) > 0 /\ out # image

\* the box the next pass of the split loop takes out of the list
Chosen == boxes[bestIdxOf(boxes)]

\* a pass of the split loop is about to call splitBox
Splitting == op = "fast" /\ pc = "split" /\ Len(boxes) < k /\ bestIdxOf(boxes) # 0

\* the channel of the largest range, the first of R, G, B among equals
FirstWidest(box) ==
    LET rRange == box.rMax - box.rMin
        gRange == box.gMax - box.gMin
        bRange == box.bMax - box.bMin
    IN  IF rRange >= gRange /\ rRange >= bRange THEN "r"
        ELSE IF gRange >= bRange THEN "g"
        ELSE "b"

\* C17: splitBox sorts and cuts the box along the channel of the largest
\* range, ties going to R before G before B: along R when R ties for the
\* largest, along G when G and B tie and R is smaller.
C17_TieBreakRGB ==
    Splitting =>
        SortByChannel(Chosen.bins, SplitChannel(Chosen))
            = SortByChannel(Chosen.bins, FirstWidest(Chosen))

\* C18: whenever the split loop has ended with fewer than k boxes, no box of
\* the list can still be split by splitBox.
C18_StopsOnlyWhenStuck ==
    (op = "fast" /\ pc = "palette" /\ Len(boxes) < k) =>
        \A i \in 1..Len(boxes) : splitBox(boxes[i]) = <<>>

\* C19: splitBox rejects a split exactly when the left or the right box
\* would hold no bin, every other split of a box of more than one bin
\* succeeds; after a rejected split the chosen box is back in the list as it
\* was and the list is as long as before.
C19_RejectedIffEmptySide ==
    [][Splitting =>
         LET sorted == SortByChannel(Chosen.bins, SplitChannel(Chosen))
             cut == CutIndex(sorted, Chosen.count)
             leftBins == cut + 1
             rightBins == Len(sorted) - (cut + 1)
         IN  /\ (splitBox(Chosen) = <<>>) <=> (leftBins = 0 \/ rightBins = 0)
             /\ splitBox(Chosen) = <<>> =>
                   /\ Len(boxes') = Len(boxes)
                   /\ boxes'[Len(boxes')] = Chosen
                   /\ Range(boxes') = Range(boxes)]_vars

\* population of a list of bins
Population(bns) == SumSeq(BinCounts(bns))

\* C20: on a successful split the cut is the smallest index of the
\* channel-sorted bins at which the cumulative population reaches half of the
\* population of the box: the left box holds the sorted bins up to and
\* including the cut, the right box the rest, both hold a bin, and no bin of
\* the left box lies above a bin of the right box on the split channel.
C20_CutAtWeightedMedian ==
    [][(Splitting /\ Len(boxes') = Len(boxes) + 1) =>
         LET channel == SplitChannel(Chosen)
             left == boxes'[Len(boxes') - 1].bins
             right == boxes'[Len(boxes')].bins
         IN  /\ left \o right = SortByChannel(Chosen.bins, channel)
             /\ Len(left) >= 1 /\ Len(right) >= 1
             /\ 2 * Population(left) >= Chosen.count
             /\ 2 * (Population(left) - left[Len(left)].count) < Chosen.count
             /\ \A i \in 1..Len(left), j \in 1..Len(right) :
                   Chan(left[i], channel) <= Chan(right[j], channel)]_vars

\* a box of four bins has been cut into two boxes of two bins
C20_Witness ==
    /\ op = "fast" /\ pc = "split" /\ Len(bins) = 4 /\ Len(boxes) = 2
    /\ Len(boxes[1].bins) = 2 /\ Len(boxes[2].bins) = 2

\* C15: for every count the slider gives (1 to 10000) and every positive
\* aspect ratio, calculatePatternDimensions returns for the grid patterns
\* finite integers rows >= 1 and cols >= 1 with rows * cols >= totalCount, so
\* the loops of the generator come to an end.
C15_GridDimensions ==
    (gpc = "generate" /\ cur.patternType # "circular"
       /\ cur.toothpickCount \in 1..10000 /\ cur.imageWidth > 0 /\ cur.imageHeight > 0) =>
        /\ rows >= 1 /\ rows < Infinity
        /\ cols >= 1 /\ cols < Infinity
        /\ rows * cols >= cur.toothpickCount

\* C16: from the initial state of the store and after any sequence of
\* colour-picker toggles (the 'C' key, the Color Picker Mode button) is2DMode
\* equals colorPickerMode: every toggle flips both, so that they are on after
\* an odd number of toggles and back off after an even number.
C16_ModesTogether ==
    /\ is2DMode = colorPickerMode
    /\ colorPickerMode = (nToggles % 2 = 1)

\* both are off again after two toggles
C16_Witness ==
    nToggles = 2 /\ ~colorPickerMode /\ ~is2DMode

\* the refinement has been entered
RefinementRan == cents # <<>> \/ it > 0 \/ pc \in {"seed", "lloyd"}

\* colour c is the mean of the bins of items, weighted by population and
\* rounded to the nearest integer per channel (halves upwards)
IsRoundedMean(c, items) ==
    LET w == Population(items)
    IN  \A ch \in 1..3 :
          LET sum == SumSeq([i \in 1..Len(items) |-> BinColour(items[i])[ch] * items[i].count])
          IN  2 * sum - w < 2 * c[ch] * w /\ 2 * c[ch] * w <= 2 * sum + w

\* C21: quantizeImportantColors runs the weighted bin refinement exactly when
\* the box splitter ended with fewer than k boxes.  Then the returned palette
\* is the refined centroid list, of length min(k, max(2, populated bins)),
\* refined over the bins of the histogram.  Otherwise the palette holds the
\* box representatives (rounded population-weighted means of the bins of each
\* box) in the order of the box list, and the random source was never called.
C21_RefinementIffFewerBoxes ==
    (FastDone /\ bins # <<>>) =>
        /\ RefinementRan <=> Len(boxes) < k
        /\ RefinementRan =>
              /\ palette = cents /\ it = iters
              /\ bins = BuildBins(image)
              /\ Len(palette) = MinOf({k, MaxOf({2, Len(bins)})})
        /\ ~RefinementRan =>
              /\ Len(palette) = Len(boxes)
              /\ \A i \in 1..Len(boxes) : IsRoundedMean(palette[i], boxes[i].bins)
              /\ nRandom = 0

\* the splitter left two boxes of five bins for k = 3 and the call returned
\* three refined centroids that are not the box representatives
C21_Witness ==
    /\ FastDone /\ k = 3 /\ Len(boxes) = 2 /\ Len(bins) = 5
    /\ Len(palette) = 3 /\ palette = cents /\ nRandom = 3
    /\ \A i \in 1..2 : \A p \in 1..3 : palette[p] # WeightedMean(boxes[i].bins)

\* the bins a weighted Lloyd iteration assigns to centroid i of cs: those
\* that have no centroid nearer and no centroid as near at a lower index
AssignedTo(i, cs) ==
    { n \in 1..Len(bins) :
        /\ \A j \in 1..Len(cs) : D2(BinColour(bins[n]), cs[i]) <= D2(BinColour(bins[n]), cs[j])
        /\ \A j \in 1..(i - 1) : D2(BinColour(bins[n]), cs[i]) < D2(BinColour(bins[n]), cs[j]) }

\* C22: in each of the 3 weighted Lloyd iterations every bin goes to the
\* centroid of the smallest squared RGB distance, the lowest index among
\* equals; a centroid that receives weight becomes the rounded
\* population-weighted mean of its bins, a centroid that receives none keeps
\* its value, and the number of centroids stays targetK.
C22_LloydIteration ==
    [][(op = "fast" /\ pc = "lloyd" /\ it' = it + 1) =>
         /\ it < 3
         /\ Len(cents) = targetKOf(k, bins) /\ Len(cents') = Len(cents)
         /\ \A i \in 1..Len(cents) :
               LET mine == AssignedTo(i, cents)
                   items == [n \in 1..Len(bins) |->
                               IF n \in mine THEN bins[n] ELSE [bins[n] EXCEPT !.count = 0]]
               IN  IF mine = {} THEN cents'[i] = cents[i]
                   ELSE IsRoundedMean(cents'[i], items)]_vars

\* after the three iterations the second centroid, seeded on the colour of
\* the first, still has that colour of a bin, and the third has become a
\* mean that is the colour of no bin
C22_Witness ==
    /\ op = "fast" /\ it = iters /\ Len(cents) = 3
    /\ cents[1] = cents[2]
    /\ \E n \in 1..Len(bins) : cents[2] = BinColour(bins[n])
    /\ \A n \in 1..Len(bins) : cents[3] # BinColour(bins[n])

\* the bins at which the nearest map is examined: the probes, the bin
\* between (1,0,0) and (0,1,0), and the bins of the pixels of the image
LutBins == ProbeBins \cup {1056} \cup { BinIndex(image[i]) : i \in 1..Len(image) }

\* the colour (v << 3) + 4 per channel of the reduced bin idx
CentreColour(idx) == <<(idx \div 1024) * 8 + 4, ((idx \div 32) % 32) * 8 + 4, (idx % 32) * 8 + 4>>

\* C23: for the palette of every call, the entry of the nearest map for a
\* reduced bin is an index of the palette that minimises the squared RGB
\* distance between the palette colour and the centre colour of the bin,
\* and it is the lowest index that does.
C23_NearestMap ==
    (op = "fast" /\ pc \in {"lut", "done"} /\ bins # <<>>) =>
        \A idx \in LutBins :
            LET p == nearest(palette, idx)
            IN  /\ p \in 1..Len(palette)
                /\ \A q \in 1..Len(palette) :
                      D2(palette[p], CentreColour(idx)) <= D2(palette[q], CentreColour(idx))
                /\ \A q \in 1..(p - 1) :
                      D2(palette[p], CentreColour(idx)) < D2(palette[q], CentreColour(idx))

\* a call has returned a palette with two different colours that are equally
\* near to the centre of a bin, and nearer than every other entry
C23_Witness ==
    /\ FastDone
    /\ \E idx \in LutBins : \E p \in 1..Len(palette), q \in 1..Len(palette) :
          /\ p < q /\ palette[p] # palette[q] /\ nearest(palette, idx) = p
          /\ D2(palette[p], CentreColour(idx)) = D2(palette[q], CentreColour(idx))

\* C24: every call of quantizeImportantColors comes to its end.  A pass of
\* the split loop adds one box to the list or leaves the loop; a pass of the
\* seeding (the first roulette included, which always selects a bin) adds
\* exactly one centroid, and the seeding is left with exactly targetK.
C24_Terminates ==
    /\ [][/\ (op = "fast" /\ pc = "split") =>
               \/ pc' = "split" /\ Len(boxes') = Len(boxes) + 1
               \/ pc' = "palette" /\ Len(boxes') = Len(boxes)
          /\ (op = "fast" /\ pc = "seed") =>
               \/ pc' = "seed" /\ Len(cents') = Len(cents) + 1 /\ Len(cents') <= targetKOf(k, bins)
               \/ pc' = "lloyd" /\ cents' = cents /\ Len(cents) = targetKOf(k, bins)]_vars
    /\ <>(pc = "done")

\* a call has returned after a pass of the split loop that added a box, a
\* pass that left the loop and three passes of the seeding
C24_Witness ==
    /\ FastDone /\ Len(bins) = 5 /\ Len(boxes) = 2 /\ k = 3
    /\ Len(cents) = 3 /\ nRandom = 3

\* the assignments before an assignment step: new Array(n).fill(0) at first
Prior == IF assignments = <<>> THEN [i \in 1..Len(image) |-> 1] ELSE assignments

\* C25: the loop of kMeansQuantize runs at most maxIterations iterations (none
\* when maxIterations is 0) and ends before that exactly after the first
\* iteration in which no pixel changed its assignment; every iteration is an
\* assignment step followed by one update step.
C25_LoopBound ==
    [][op = "exact" =>
         /\ (pc = "loop" /\ pc' = "update") =>
               /\ changed /\ iteration < maxIterations
               /\ iteration' = iteration
               /\ changed' = (\E i \in 1..Len(image) : assignments'[i] # Prior[i])
         /\ pc = "update" =>
               /\ pc' = "loop" /\ iteration' = iteration + 1 /\ iteration' <= maxIterations
               /\ UNCHANGED <<assignments, changed>>
         /\ (pc = "loop" /\ pc' = "done") =>
               /\ iteration <= maxIterations
               /\ ~changed \/ iteration = maxIterations
               /\ ~changed => iteration >= 1
         /\ (pc = "loop" /\ ~changed) => pc' = "done"]_vars

\* a call has returned after its second iteration, the first in which no
\* assignment changed, well before the cap of 10
C25_Witness ==
    /\ op = "exact" /\ pc = "done" /\ maxIterations = 10
    /\ iteration = 2 /\ ~changed /\ Len(palette) >= 2

\* the pixels the histogram is to count: all of them in a buffer of at most
\* 2,000,000 bytes, every second one (the first, the third, ...) otherwise
Counted(img) ==
    IF 4 * Len(img) <= 2000000 THEN 1..Len(img) ELSE { i \in 1..Len(img) : i % 2 = 1 }

\* the channels of pixel px shifted right by 3
Shifted(px) == <<px[1] \div 8, px[2] \div 8, px[3] \div 8>>

\* bns holds exactly the populated bins of img: every counted pixel falls
\* in a bin of the list, no bin is listed twice, the colour of a bin is
\* (index << 3) + 4 per channel, its count is the number of counted pixels
\* with that index, and the counts add up to the number of counted pixels
ExactHistogram(bns, img) ==
    /\ \A n \in 1..Len(bns) :
          LET idx == Shifted(BinColour(bns[n]))
          IN  /\ \A ch \in 1..3 : idx[ch] \in 0..31
              /\ BinColour(bns[n]) = <<idx[1] * 8 + 4, idx[2] * 8 + 4, idx[3] * 8 + 4>>
              /\ bns[n].count = Cardinality({ i \in Counted(img) : Shifted(img[i]) = idx })
              /\ bns[n].count > 0
    /\ \A n \in 1..Len(bns), m \in 1..Len(bns) : n # m => BinColour(bns[n]) # BinColour(bns[m])
    /\ \A s \in { Shifted(img[i]) : i \in Counted(img) } :
          \E n \in 1..Len(bns) : BinColour(bns[n]) = <<s[1] * 8 + 4, s[2] * 8 + 4, s[3] * 8 + 4>>
    /\ SumSeq([n \in 1..Len(bns) |-> bns[n].count]) = Cardinality(Counted(img))

\* the histogram of the buffer above the sampling threshold is exact
LargeHistogramExact == ExactHistogram(LargeBins, LargeImage)

\* C26: the histogram builder lists exactly the bins of non-zero population:
\* the count of a bin is the number of sampled pixels (every pixel of a buffer
\* of at most 2,000,000 bytes, every second pixel of a larger one) whose
\* channels shifted right by 3 give the index of the bin, the counts add up
\* to the number of sampled pixels, and the colour of a bin is
\* (index << 3) + 4 per channel.
C26_HistogramExact ==
    /\ (op = "fast" /\ pc # "start") => ExactHistogram(bins, image)
    /\ LargeHistogramExact

\* a call has built two bins for three pixels, two of them of one bin; of
\* the larger buffer only the bin of the even pixels is listed
C26_Witness ==
    /\ op = "fast" /\ pc = "split" /\ Len(image) = 3 /\ Len(bins) = 2
    /\ bins[1].count = 2 /\ image[1] # image[2]
    /\ Len(LargeBins) = 1 /\ LargeBins[1].count = 250001

\* no call of updateToothpicks is running, due or waiting at its await
Settled == Idle /\ suspended = <<>>

\* C27: after any interleaving of overlapping calls of updateToothpicks
\* (calls that quantize and wait at the import, calls served from the cache,
\* calls without colour reduction) the palette and the toothpicks in the store
\* are those of the call that was started last: what a quantizing call
\* computed is dropped whenever a later call was started before it resumed.
C27_LatestCallWins ==
    (Settled /\ nStarted > 0) =>
        /\ colorPalette = <<nStarted>>
        /\ toothpicksBy = nStarted

\* C28: once the Total Toothpicks slider has been changed and every debounce
\* timer, effect and waiting call has run, the toothpicks of the store were
\* generated from the toothpickCount of the store, never from an earlier
\* count; and no more than one debounce timer is pending.
C28_LatestCount ==
    /\ Len(updateTimer) <= 1
    /\ (Settled /\ updateTimer = <<>> /\ toothpicks # <<>>) =>
          toothpicks[1].toothpickCount = toothpickCount

\* C29: on return from kMeansQuantize with k >= 1 on a non-empty image, the
\* colour of every output pixel is the entry of the returned palette nearest
\* to the input pixel (lowest index on ties), also when the loop ended by the
\* iteration cap or after an empty cluster was reseeded.
C29_OutputNearestFinal ==
    (op = "exact" /\ pc = "done" /\ k >= 1 /\ Len(image) > 0) =>
        \A i \in 1..Len(image) :
            RGB(out[i]) = palette[findClosestCentroid(Pixels(image)[i], palette)]

\* C30: the splitter never splits a box of fewer than 3 bins and the left box
\* of every successful split has at least 2 bins; so with n >= 2 populated
\* bins the box list never grows beyond n - 1 boxes, and for every k >= n the
\* weighted refinement runs and the random source is called.
C30_SplitNeedsThreeBins ==
    /\ [][(Splitting /\ Len(boxes') = Len(boxes) + 1) =>
             /\ Len(Chosen.bins) >= 3
             /\ Len(boxes'[Len(boxes') - 1].bins) >= 2]_vars
    /\ []((op = "fast" /\ Len(bins) >= 2) => Len(boxes) <= Len(bins) - 1)
    /\ []((FastDone /\ Len(bins) >= 2 /\ k >= Len(bins)) => (RefinementRan /\ nRandom > 0))

\* a box of three bins was split into a left box of two bins and a right box
\* of one, and the call for k = 3 returned after the refinement
C30_Witness ==
    /\ FastDone /\ k = 3 /\ Len(bins) = 3 /\ Len(boxes) = 2
    /\ Len(boxes[1].bins) = 1 /\ Len(boxes[2].bins) = 2
    /\ RefinementRan /\ nRandom > 0

====
